---------------------------- MODULE Spec2Model ----------------------------
(***************************************************************************)
(* A model of src/addmc/src/logic.cc: the extended-DIMACS parser of class  *)
(* Cnf, pseudo-Boolean canonicalization, the variable-order heuristics,    *)
(* Assignment::extendAssignments, slice enumeration and the join-tree      *)
(* node constructors with their static counters.                           *)
(*                                                                         *)
(* An input line is the sequence of its words (util::splitInputLine), each *)
(* word a string.  Set<T> and Map<K,V> are unordered containers: wherever  *)
(* the code depends on their iteration order the model takes every order.  *)
(***************************************************************************)
EXTENDS Integers, Sequences, FiniteSets, TLC

VARIABLES
  \* global flags (logic.cc:7-14)
  weightedCounting, projectedCounting, maxsatSolving, minMaxsatSolving,
  multiplePrecision, logCounting,
  \* locals of Cnf::Cnf(filePath); line is the line read last, as its words
  pc, line, lineIndex, problemLineIndex, wcnfFlag, hwcnfFlag,
  \* fields of the Cnf under construction
  declaredVarCount, clauses, types, coefLists, comparators, klist,
  varToClauses, apparentVars, literalWeights, additiveVars,
  \* history: literalWeights as the weight lines left it (before completion)
  suppliedWeights,
  \* Assignment::extendAssignments: the list of assignments and the
  \* variable of the last call
  assignments, extendVar,
  \* the last call of getCnfVarOrder or getAdditiveAssignments: the function
  \* that returned, its arguments and the variable order it computed
  returned, varOrderHeuristic, sliceVarCount, varOrder,
  \* static fields of JoinNode (logic.cc:975-981) and the nodes constructed
  nodeCount, terminalCount, nonterminalIndices,
  backupNodeCount, backupTerminalCount, backupNonterminalIndices, nodes,
  \* a Graph object and the last call of one of its member functions
  graphObject, graphCall,
  \* unnumberedVertices and numberedVertices of Cnf::getLexmVarOrder
  \* between two iterations of its loop
  lexmUnnumbered, lexmNumbered,
  \* the last call of JoinNode::chooseClusterIndex
  clusterCall,
  \* history: the static fields as they were before each resetStaticFields
  \* that restoreStaticFields has not yet answered, innermost last
  resetStack

flagVars == <<weightedCounting, projectedCounting, maxsatSolving,
              minMaxsatSolving, multiplePrecision, logCounting>>
parserVars == <<pc, line, lineIndex, problemLineIndex, wcnfFlag, hwcnfFlag>>
clauseVars == <<clauses, types, coefLists, comparators, klist, varToClauses>>
cnfVars == <<declaredVarCount, clauseVars, apparentVars, literalWeights,
             additiveVars, suppliedWeights>>

orderVars == <<returned, varOrderHeuristic, sliceVarCount, varOrder>>
sliceVars == <<assignments, extendVar, orderVars>>
staticVars == <<nodeCount, terminalCount, nonterminalIndices>>
backupVars == <<backupNodeCount, backupTerminalCount, backupNonterminalIndices>>
treeVars == <<staticVars, backupVars, nodes>>
callVars == <<graphObject, graphCall, lexmUnnumbered, lexmNumbered,
              clusterCall>>

vars == <<flagVars, parserVars, cnfVars, sliceVars, treeVars, callVars,
          resetStack>>

(***************************************************************************)
(* Bounds of the model.                                                    *)
(***************************************************************************)
MaxLines == 3

(***************************************************************************)
(* Sentinel of "not set" (Int's minimum in the code; here a value below    *)
(* every integer the model reaches).                                       *)
(***************************************************************************)
MIN_INT == -2147483647

(***************************************************************************)
(* Words.  stoll/stoi/stod and Number(string) are tables over the words    *)
(* the model's input lines use; a word outside a table makes the           *)
(* conversion throw std::invalid_argument.                                 *)
(***************************************************************************)
StollTable ==
  ("-3" :> -3) @@ ("-2" :> -2) @@ ("-1" :> -1) @@ ("0" :> 0) @@
  ("1" :> 1) @@ ("2" :> 2) @@ ("3" :> 3) @@ ("4" :> 4)

IsInt(w) == w \in DOMAIN StollTable

stoll(w) == StollTable[w]

\* Number(string), in tenths: Number("0.3") is 3, Number("1") is 10.
NumberTable ==
  ("-1" :> -10) @@ ("0" :> 0) @@ ("0.3" :> 3) @@ ("0.5" :> 5) @@
  ("1" :> 10) @@ ("2" :> 20)

IsNumber(w) == w \in DOMAIN NumberTable

Number(w) == NumberTable[w]

\* str.substr(1) of a PB variable word "x<v>"
XSuffixTable ==
  ("x" :> "") @@ ("x0" :> "0") @@ ("x1" :> "1") @@ ("x2" :> "2") @@
  ("x3" :> "3")

\* firstWord.substr(1, firstWord.length() - 2) of a soft-weight word "[w]"
BracketTable == ("[2]" :> "2")

starts_with(w, prefix) ==
  CASE prefix = "c" -> w \in {"c"}
    [] prefix = "*" -> w \in {"*"}
    [] prefix = "soft" -> w \in {"soft"}
    [] prefix = "[" -> w \in DOMAIN BracketTable
    [] prefix = "x" -> w \in DOMAIN XSuffixTable
    [] OTHER -> FALSE

(***************************************************************************)
(* Map<K,V> as a function; insert keeps an existing entry, operator[]=     *)
(* overwrites.                                                             *)
(***************************************************************************)
EmptyMap == <<>>

MapInsert(m, k, v) == m @@ (k :> v)

MapPut(m, k, v) == (k :> v) @@ m

MapErase(m, k) == [x \in (DOMAIN m) \ {k} |-> m[x]]

abs(n) == IF n < 0 THEN -n ELSE n


(***************************************************************************)
(* PB_canonicalize (logic.cc:613-636).  coefs[var] is Map::operator[],     *)
(* which inserts 0 for a missing key.                                      *)
(***************************************************************************)
CoefAt(coefs, var) == IF var \in DOMAIN coefs THEN coefs[var] ELSE 0

\* PB_flip with the right-hand side left as it was
PB_flipKeepsK(clause, coefs, k, comparator) ==
  IF comparator = 3
  THEN [clause |-> clause,
        coefs |-> [v \in (DOMAIN coefs) \cup clause |->
                     IF v \in clause THEN -CoefAt(coefs, v) ELSE coefs[v]],
        k |-> k,
        comparator |-> 1]
  ELSE [clause |-> clause, coefs |-> coefs, k |-> k, comparator |-> comparator]

\* lines 614-621: <= becomes >= with k and every coefficient negated
PB_flip(clause, coefs, k, comparator) ==
  IF comparator = 3
  THEN [clause |-> clause,
        coefs |-> [v \in (DOMAIN coefs) \cup clause |->
                     IF v \in clause THEN -CoefAt(coefs, v) ELSE coefs[v]],
        k |-> -k,
        comparator |-> 1]
  ELSE [clause |-> clause, coefs |-> coefs, k |-> k, comparator |-> comparator]

\* line 625: the test that sends a term to its negated literal
PB_isNegative(coef) == coef < 0

\* lines 623-631: the loop over the clause's variables, one variable at a
\* time; todo holds the variables not yet visited.  With variables >= 0 the
\* result does not depend on the order of the visit.
RECURSIVE PB_negLoop(_, _, _, _)
PB_negLoop(todo, coefs, k, tempVar) ==
  IF todo = {}
  THEN [coefs |-> coefs, k |-> k, tempVar |-> tempVar]
  ELSE LET var == CHOOSE v \in todo : TRUE
           c == CoefAt(coefs, var)
           withVar == MapInsert(coefs, var, 0)
       IN IF PB_isNegative(c)
          THEN PB_negLoop(todo \ {var},
                          MapErase(MapInsert(withVar, -var, -c), var),
                          k - c,
                          tempVar \cup {-var})
          ELSE PB_negLoop(todo \ {var}, withVar, k, tempVar)

\* lines 632-635: clause.insert(var); clause.erase(-var) for var in tempVar
RECURSIVE PB_swapLits(_, _)
PB_swapLits(clause, tempVar) ==
  IF tempVar = {}
  THEN clause
  ELSE LET var == CHOOSE v \in tempVar : TRUE
       IN PB_swapLits((clause \cup {var}) \ {-var}, tempVar \ {var})

PB_canonicalize(clause, coefs, k, comparator) ==
  LET f == PB_flip(clause, coefs, k, comparator)
      n == PB_negLoop(f.clause, f.coefs, f.k, {})
  IN [clause |-> PB_swapLits(f.clause, n.tempVar),
      coefs |-> n.coefs,
      k |-> n.k,
      comparator |-> f.comparator]

(***************************************************************************)
(* Cnf::addClause (logic.cc:389-407): the new values of the parallel       *)
(* arrays and of varToClauses.  The soft weight of a constraint is not     *)
(* modelled.                                                               *)
(***************************************************************************)
AddToVarToClauses(v2c, clause, clauseIndex) ==
  LET cvars == {abs(literal) : literal \in clause}
  IN [var \in (DOMAIN v2c) \cup cvars |->
        IF var \in cvars
        THEN (IF var \in DOMAIN v2c THEN v2c[var] ELSE {}) \cup {clauseIndex}
        ELSE v2c[var]]

addClause(clause, type, comparator, coefs, k) ==
  /\ clauses' = Append(clauses, clause)
  /\ types' = Append(types, type)
  /\ coefLists' = Append(coefLists, coefs)
  /\ comparators' = Append(comparators, comparator)
  /\ klist' = Append(klist, k)
  /\ varToClauses' = AddToVarToClauses(varToClauses, clause, Len(clauses))

(***************************************************************************)
(* The if-else chain of the line loop (logic.cc:665-742): which branch a   *)
(* line takes.  "crash" is words.at(1) on a one-word line (line 691).      *)
(***************************************************************************)
IsWeightLine(words) ==
  /\ weightedCounting
  /\ \/ words[1] = "w"
     \/ (Len(words) > 4 /\ words[2] = "p" /\ words[3] = "weight")

IsShowLine(words) ==
  /\ projectedCounting \/ maxsatSolving
  /\ \/ words[1] \in {"vp", "vm"}
     \/ (Len(words) > 3 /\ words[2] = "p" /\ words[3] = "show")

Branch(words) ==
  IF words = <<>> THEN "blank"
  ELSE IF words[1] = "p" THEN "problem"
  ELSE IF words[1] = "*" /\ Len(words) < 2 THEN "crash"
  ELSE IF words[1] = "*" /\ words[2] = "#variable=" THEN "wbo"
  ELSE IF words[1] \in {"w", "vp", "c", "vm"}
       THEN (IF IsWeightLine(words) THEN "weight"
             ELSE IF IsShowLine(words) THEN "show"
             ELSE "skip")
  ELSE IF words[1] \in {"s", "INDETERMINATE"} THEN "pmc"
  ELSE IF /\ ~starts_with(words[1], "c")
          /\ ~starts_with(words[1], "*")
          /\ ~starts_with(words[1], "soft")
       THEN "clause"
  ELSE "skip"

\* words.at(i) with i counted from 0 throws std::out_of_range past the end
HasWord(words, i) == i + 1 <= Len(words)

Word(words, i) == words[i + 1]

\* how a line that throws leaves the constructor
Throw(exception) ==
  /\ pc' = exception
  /\ UNCHANGED <<wcnfFlag, hwcnfFlag, cnfVars>>

\* getline delivers one more line (the model's files have at most MaxLines)
CanRead == pc = "parsing" /\ lineIndex < MaxLines

\* lines 657-664: the next line is read and split
Read(words) ==
  /\ CanRead
  /\ line' = words
  /\ lineIndex' = lineIndex + 1
  /\ UNCHANGED <<sliceVars, treeVars, callVars, resetStack>>

(***************************************************************************)
(* Blank lines, comments, and w/vp/c/vm lines that the flags switch off.   *)
(***************************************************************************)
SkipLine(words) ==
  /\ Read(words)
  /\ Branch(words) \in {"blank", "skip"}
  /\ UNCHANGED <<pc, problemLineIndex, wcnfFlag, hwcnfFlag, cnfVars, flagVars>>

\* line 691 on the one-word line "*"
StarLineCrash(words) ==
  /\ Read(words)
  /\ Branch(words) = "crash"
  /\ Throw("crash")
  /\ UNCHANGED <<problemLineIndex, flagVars>>

(***************************************************************************)
(* Problem line "p ..." (logic.cc:668-690).                                *)
(***************************************************************************)
\* line 669: a problem line was already read
ProblemLineSeen == problemLineIndex # MIN_INT

ProblemLine(words) ==
  /\ Read(words)
  /\ Branch(words) = "problem"
  /\ UNCHANGED flagVars
  /\ IF ProblemLineSeen
     THEN Throw("fatal") /\ UNCHANGED problemLineIndex
     ELSE /\ problemLineIndex' = lineIndex + 1
          /\ IF Len(words) < 4
             THEN Throw("fatal")
             ELSE IF \/ ~IsInt(Word(words, 2))
                     \/ ~IsInt(Word(words, 3))
                     \/ /\ Word(words, 1) \in {"wcnf", "hwcnf"}
                        /\ Len(words) = 5
                        /\ ~IsInt(Word(words, 4))
             THEN Throw("crash")
             ELSE /\ declaredVarCount' = stoll(Word(words, 2))
                  /\ wcnfFlag' = IF Word(words, 1) \in {"wcnf", "hwcnf"} THEN 1 ELSE 0
                  /\ hwcnfFlag' = IF Word(words, 1) = "hwcnf" THEN 1 ELSE 0
                  /\ UNCHANGED <<pc, clauseVars, apparentVars, literalWeights,
                                 additiveVars, suppliedWeights>>

(***************************************************************************)
(* Problem line of a WBO/PBO file (logic.cc:691-697).                      *)
(***************************************************************************)
WboHeader(words) ==
  /\ Read(words)
  /\ Branch(words) = "wbo"
  /\ UNCHANGED flagVars
  /\ IF \/ ~HasWord(words, 12)
        \/ ~IsInt(Word(words, 2)) \/ ~IsInt(Word(words, 4))
        \/ ~IsInt(Word(words, 12))
     THEN Throw("crash") /\ UNCHANGED problemLineIndex
     ELSE /\ declaredVarCount' = stoll(Word(words, 2))
          /\ problemLineIndex' = lineIndex + 1
          /\ UNCHANGED <<pc, wcnfFlag, hwcnfFlag, clauseVars, apparentVars,
                         literalWeights, additiveVars, suppliedWeights>>

(***************************************************************************)
(* Weight line "w l w" or "c p weight l w 0" (logic.cc:699-715).           *)
(***************************************************************************)
WeightLine(words) ==
  /\ Read(words)
  /\ Branch(words) = "weight"
  /\ UNCHANGED <<problemLineIndex, flagVars>>
  /\ LET litPos == IF words[1] = "w" THEN 1 ELSE 3
         wPos == IF words[1] = "w" THEN 2 ELSE 4
     IN IF problemLineIndex = MIN_INT
        THEN Throw("fatal")
        ELSE IF ~HasWord(words, litPos) \/ ~IsInt(Word(words, litPos))
        THEN Throw("crash")
        ELSE IF abs(stoll(Word(words, litPos))) > declaredVarCount
        THEN Throw("fatal")
        ELSE IF ~HasWord(words, wPos) \/ ~IsNumber(Word(words, wPos))
        THEN Throw("crash")
        ELSE IF Number(Word(words, wPos)) < 0
        THEN Throw("fatal")
        ELSE /\ literalWeights' = MapPut(literalWeights,
                                         stoll(Word(words, litPos)),
                                         Number(Word(words, wPos)))
             /\ suppliedWeights' = literalWeights'
             /\ UNCHANGED <<pc, wcnfFlag, hwcnfFlag, declaredVarCount,
                            clauseVars, apparentVars, additiveVars>>

(***************************************************************************)
(* Show line "vp ...", "vm ..." or "c p show ..." (logic.cc:717-737).      *)
(* The loop over the words from position i; every pass first assigns       *)
(* minMaxsatSolving = maxsatSolving.                                       *)
(***************************************************************************)
RECURSIVE ShowLoop(_, _, _)
ShowLoop(words, i, additive) ==
  IF ~HasWord(words, i)
  THEN [outcome |-> "ok", additiveVars |-> additive]
  ELSE IF ~IsInt(Word(words, i))
  THEN [outcome |-> "crash", additiveVars |-> additive]
  ELSE LET num == stoll(Word(words, i))
       IN IF num = 0
          THEN (IF i # Len(words) - 1
                THEN [outcome |-> "fatal", additiveVars |-> additive]
                ELSE ShowLoop(words, i + 1, additive))
          ELSE IF num < 0 \/ num > declaredVarCount
          THEN [outcome |-> "fatal", additiveVars |-> additive]
          ELSE ShowLoop(words, i + 1, additive \cup {num})

\* a show line that sets minMaxsatSolving to true, whatever maxsatSolving is
ShowLineSetsTrue(words) ==
  /\ Read(words)
  /\ Branch(words) = "show"
  /\ UNCHANGED <<problemLineIndex, weightedCounting, projectedCounting,
                 maxsatSolving, multiplePrecision, logCounting>>
  /\ IF problemLineIndex = MIN_INT
     THEN Throw("fatal") /\ UNCHANGED minMaxsatSolving
     ELSE LET first == IF words[1] \in {"vp", "vm"} THEN 1 ELSE 3
              r == ShowLoop(words, first, additiveVars)
          IN /\ minMaxsatSolving' =
                  IF HasWord(words, first) THEN TRUE ELSE minMaxsatSolving
             /\ IF r.outcome = "ok"
                THEN /\ additiveVars' = r.additiveVars
                     /\ UNCHANGED <<pc, wcnfFlag, hwcnfFlag, declaredVarCount,
                                    clauseVars, apparentVars, literalWeights,
                                    suppliedWeights>>
                ELSE Throw(r.outcome)

ShowLine(words) ==
  /\ Read(words)
  /\ Branch(words) = "show"
  /\ UNCHANGED <<problemLineIndex, weightedCounting, projectedCounting,
                 maxsatSolving, multiplePrecision, logCounting>>
  /\ IF problemLineIndex = MIN_INT
     THEN Throw("fatal") /\ UNCHANGED minMaxsatSolving
     ELSE LET first == IF words[1] \in {"vp", "vm"} THEN 1 ELSE 3
              r == ShowLoop(words, first, additiveVars)
          IN /\ minMaxsatSolving' =
                  IF HasWord(words, first) THEN maxsatSolving ELSE minMaxsatSolving
             /\ IF r.outcome = "ok"
                THEN /\ additiveVars' = r.additiveVars
                     /\ UNCHANGED <<pc, wcnfFlag, hwcnfFlag, declaredVarCount,
                                    clauseVars, apparentVars, literalWeights,
                                    suppliedWeights>>
                ELSE Throw(r.outcome)

\* line 739: output of the preprocessor pmc
PmcLine(words) ==
  /\ Read(words)
  /\ Branch(words) = "pmc"
  /\ Throw("fatal")
  /\ UNCHANGED <<problemLineIndex, flagVars>>

(***************************************************************************)
(* Clause lines (logic.cc:742-870).                                        *)
(***************************************************************************)
\* lines 767-769, 828-830
ComparatorCode(comparator_string) ==
  CASE comparator_string = ">=" -> 1
    [] comparator_string = "=" -> 2
    [] comparator_string = "<=" -> 3
    [] OTHER -> 0

\* lines 757-763, 818-824: the terms "coef x<var>" from term i on;
\* Set::insert and Map::insert keep what is already there
RECURSIVE PbTerms(_, _, _, _, _)
PbTerms(words, i, termCount, clause, coefs) ==
  IF i >= termCount
  THEN [outcome |-> "ok", clause |-> clause, coefs |-> coefs]
  ELSE LET str == Word(words, i * 2 + 1)
           coefWord == Word(words, i * 2)
       IN IF \/ str \notin DOMAIN XSuffixTable
             \/ ~IsInt(XSuffixTable[str])
             \/ ~IsInt(coefWord)
          THEN [outcome |-> "crash", clause |-> clause, coefs |-> coefs]
          ELSE LET var == stoll(XSuffixTable[str])
                   coef == stoll(coefWord)
               IN PbTerms(words, i + 1, termCount,
                          clause \cup {var}, MapInsert(coefs, var, coef))

\* A WBO/PBO constraint line up to the call of PB_canonicalize.  With fewer
\* than 3 words words.size() - 3 wraps around and the loop runs until
\* words.at throws.  The model's lines have an "x<v>" word at every
\* variable position.
PbParse(words) ==
  IF Len(words) < 3
  THEN [outcome |-> "crash"]
  ELSE LET termCount == (Len(words) - 3) \div 2
           t == PbTerms(words, 0, termCount, {}, EmptyMap)
           kWord == Word(words, Len(words) - 2)
       IN IF t.outcome = "crash" \/ ~IsInt(kWord)
          THEN [outcome |-> "crash"]
          ELSE [outcome |-> "ok",
                clause |-> t.clause,
                coefs |-> t.coefs,
                comparator |-> ComparatorCode(Word(words, Len(words) - 3)),
                k |-> stoll(kWord)]

\* lines 774-802 (wcnf = 0) and 835-867: the loop over the words of a CNF
\* or XOR clause line from position i
RECURSIVE ClauseLoop(_, _, _, _, _)
ClauseLoop(words, i, clause, type, wcnf) ==
  IF ~HasWord(words, i)
  THEN [outcome |-> "none"]
  ELSE LET w == Word(words, i)
       IN IF w = "x"
          THEN ClauseLoop(words, i + 1, clause, "x", wcnf)
          ELSE IF wcnf = 1 /\ ((type = "c" /\ i = 0) \/ (type = "x" /\ i = 1))
          THEN (IF IsInt(w) \/ IsNumber(w)
                THEN ClauseLoop(words, i + 1, clause, type, wcnf)
                ELSE [outcome |-> "crash"])
          ELSE IF ~IsInt(w)
          THEN [outcome |-> "crash"]
          ELSE LET num == stoll(w)
               IN IF num > declaredVarCount \/ num < -declaredVarCount
                  THEN [outcome |-> "fatal"]
                  ELSE IF num = 0
                  THEN (IF i # Len(words) - 1
                        THEN [outcome |-> "fatal"]
                        ELSE IF clause = {}
                        THEN [outcome |-> "emptyClause"]
                        ELSE [outcome |-> "added", clause |-> clause,
                              type |-> type])
                  ELSE IF i = Len(words) - 1
                  THEN [outcome |-> "fatal"]
                  ELSE ClauseLoop(words, i + 1, clause \cup {num}, type, wcnf)

\* What a clause line does after the problem-line check: the hybrid branch
\* (lines 749-804) strips the "[w]" word first, the typical branch (lines
\* 805-869) only from a PB constraint.
ClauseLineResult(words) ==
  IF hwcnfFlag = 1
  THEN IF words[1] \notin DOMAIN BracketTable \/ ~HasWord(Tail(words), 1)
       THEN [outcome |-> "crash"]
       ELSE IF starts_with(Word(Tail(words), 1), "x")
       THEN [outcome |-> "pb", pb |-> PbParse(Tail(words))]
       ELSE ClauseLoop(Tail(words), 0, {}, "c", 0)
  ELSE IF starts_with(words[1], "[")
       THEN [outcome |-> "pb", pb |-> PbParse(Tail(words))]
       ELSE IF ~HasWord(words, 1)
       THEN [outcome |-> "crash"]
       ELSE IF starts_with(Word(words, 1), "x")
       THEN [outcome |-> "pb", pb |-> PbParse(words)]
       ELSE ClauseLoop(words, 0, {}, "c", wcnfFlag)

ClauseLine(words) ==
  /\ Read(words)
  /\ Branch(words) = "clause"
  /\ UNCHANGED <<problemLineIndex, flagVars>>
  /\ IF problemLineIndex = MIN_INT
     THEN Throw("fatal")
     ELSE LET r == ClauseLineResult(words)
          IN CASE r.outcome = "pb" /\ r.pb.outcome = "ok" ->
                    LET c == PB_canonicalize(r.pb.clause, r.pb.coefs,
                                             r.pb.k, r.pb.comparator)
                    IN /\ addClause(c.clause, "p", c.comparator, c.coefs, c.k)
                       /\ UNCHANGED <<pc, wcnfFlag, hwcnfFlag, declaredVarCount,
                                      apparentVars, literalWeights,
                                      additiveVars, suppliedWeights>>
               [] r.outcome = "pb" /\ r.pb.outcome # "ok" -> Throw("crash")
               [] r.outcome = "added" ->
                    /\ addClause(r.clause, r.type, 0, EmptyMap, 0)
                    /\ UNCHANGED <<pc, wcnfFlag, hwcnfFlag, declaredVarCount,
                                   apparentVars, literalWeights,
                                   additiveVars, suppliedWeights>>
               [] r.outcome = "none" ->
                    UNCHANGED <<pc, wcnfFlag, hwcnfFlag, cnfVars>>
               [] OTHER -> Throw(r.outcome)

(***************************************************************************)
(* End of the file: logic.cc:873-910.                                      *)
(***************************************************************************)
One == Number("1")

\* CompleteWeight giving the missing literal the default weight
CompleteWeightDefault(other) == One

\* lines 901, 907: the weight of the literal whose weight line is missing
CompleteWeight(other) == One - other

Has(lit) == lit \in DOMAIN literalWeights

\* lines 885-910: literalWeights after the two loops over 1..declaredVarCount
CompletedWeight(lit) ==
  IF ~(1 <= abs(lit) /\ abs(lit) <= declaredVarCount)
  THEN literalWeights[lit]
  ELSE IF ~weightedCounting THEN One
  ELSE IF ~Has(lit) /\ ~Has(-lit) THEN One
  ELSE IF ~Has(lit) THEN CompleteWeight(literalWeights[-lit])
  ELSE literalWeights[lit]

CompletedLiteralWeights ==
  [lit \in (DOMAIN literalWeights)
             \cup {l \in -declaredVarCount .. declaredVarCount : l # 0}
     |-> CompletedWeight(lit)]

\* lines 899, 905: an assert(literalWeights.at(l) <= Number("1")) that fails
AssertionFails ==
  /\ weightedCounting
  /\ logCounting
  /\ \E var \in 1 .. declaredVarCount :
        \/ ~Has(var) /\ Has(-var) /\ ~(literalWeights[-var] <= One)
        \/ Has(var) /\ ~Has(-var) /\ ~(literalWeights[var] <= One)

\* lines 879-883
CompletedAdditiveVars ==
  IF ~projectedCounting /\ ~maxsatSolving
  THEN additiveVars \cup (1 .. declaredVarCount)
  ELSE additiveVars

\* getline fails: the file has ended.  Where an assertion fails this is the
\* build without assertions.
EndOfFile ==
  /\ pc = "parsing"
  /\ UNCHANGED <<line, lineIndex, problemLineIndex, flagVars, sliceVars,
                 treeVars, callVars, resetStack>>
  /\ IF problemLineIndex = MIN_INT
     THEN Throw("fatal")
     ELSE /\ pc' = "done"
          /\ apparentVars' = apparentVars \cup DOMAIN varToClauses
          /\ additiveVars' = CompletedAdditiveVars
          /\ literalWeights' = CompletedLiteralWeights
          /\ UNCHANGED <<wcnfFlag, hwcnfFlag, declaredVarCount, clauseVars,
                         suppliedWeights>>

\* the build with assertions stops at the failing assert
EndOfFileAssert ==
  /\ pc = "parsing"
  /\ problemLineIndex # MIN_INT
  /\ AssertionFails
  /\ pc' = "abort"
  /\ apparentVars' = apparentVars \cup DOMAIN varToClauses
  /\ additiveVars' = CompletedAdditiveVars
  /\ UNCHANGED <<line, lineIndex, problemLineIndex, flagVars, wcnfFlag,
                 hwcnfFlag, declaredVarCount, clauseVars, literalWeights,
                 suppliedWeights, sliceVars, treeVars,
                 callVars, resetStack>>

(***************************************************************************)
(* The state before the first line is read (logic.cc:648-656).             *)
(***************************************************************************)
InitParser ==
  /\ pc = "parsing"
  /\ line = <<>>
  /\ lineIndex = 0
  /\ problemLineIndex = MIN_INT
  /\ wcnfFlag = 0
  /\ hwcnfFlag = 0

InitCnf ==
  /\ declaredVarCount = 0
  /\ clauses = <<>>
  /\ types = <<>>
  /\ coefLists = <<>>
  /\ comparators = <<>>
  /\ klist = <<>>
  /\ varToClauses = EmptyMap
  /\ apparentVars = {}
  /\ literalWeights = EmptyMap
  /\ additiveVars = {}
  /\ suppliedWeights = EmptyMap

\* no call of getCnfVarOrder or getAdditiveAssignments yet
InitOrder ==
  /\ returned = ""
  /\ varOrderHeuristic = [heuristic |-> "", negative |-> FALSE]
  /\ sliceVarCount = 0
  /\ varOrder = <<>>

\* no call of extendAssignments yet
InitSlice ==
  /\ assignments = <<>>
  /\ extendVar = 0
  /\ InitOrder

\* the static fields of JoinNode are zero-initialized; no node exists
InitTree ==
  /\ nodeCount = 0
  /\ terminalCount = 0
  /\ nonterminalIndices = {}
  /\ backupNodeCount = 0
  /\ backupTerminalCount = 0
  /\ backupNonterminalIndices = {}
  /\ nodes = <<>>
  /\ resetStack = <<>>

\* no Graph object, no getLexmVarOrder in progress, no chooseClusterIndex call
NoCall == [op |-> "", v1 |-> 0, v2 |-> 0, result |-> 0]

InitCalls ==
  /\ graphObject = [vertices |-> {}, adjacencyMap |-> <<>>]
  /\ graphCall = NoCall
  /\ lexmUnnumbered = <<>>
  /\ lexmNumbered = <<>>
  /\ clusterCall = NoCall

\* the lines of the input files
InputLines ==
  { <<>>,
    <<"c", "comment">>,
    <<"*">>,
    <<"p", "cnf", "2", "1">>,
    <<"p", "wcnf", "2", "1", "3">>,
    <<"p", "cnf">>,
    <<"*", "#variable=", "2", "#constraint=", "1", "#soft=", "1", "mincost=",
      "1", "maxcost=", "3", "sumcost=", "3">>,
    <<"w", "1", "0.3">>,
    <<"w", "-1", "0.5">>,
    <<"w", "2", "2">>,
    <<"w", "1", "-1">>,
    <<"w", "3", "0.3">>,
    <<"c", "p", "weight", "-2", "0.3", "0">>,
    <<"vp", "1", "0">>,
    <<"vm", "2">>,
    <<"c", "p", "show", "1", "3", "0">>,
    <<"s", "SATISFIABLE">>,
    <<"1", "-2", "0">>,
    <<"0">>,
    <<"x", "0">>,
    <<"x", "1", "2", "0">>,
    <<"1", "2">>,
    <<"1", "x1", "-2", "x2", "<=", "1", "0">>,
    <<"[2]", "1", "x3", ">=", "1", "0">> }

ParseLine(words) ==
  \/ SkipLine(words)
  \/ StarLineCrash(words)
  \/ ProblemLine(words)
  \/ WboHeader(words)
  \/ WeightLine(words)
  \/ ShowLine(words)
  \/ PmcLine(words)
  \/ ClauseLine(words)

ReadLine == \E words \in InputLines : ParseLine(words)

InitParse ==
  /\ weightedCounting \in BOOLEAN
  /\ projectedCounting \in BOOLEAN
  /\ maxsatSolving \in BOOLEAN
  /\ minMaxsatSolving \in BOOLEAN
  /\ multiplePrecision \in BOOLEAN
  /\ logCounting \in BOOLEAN
  /\ InitParser
  /\ InitCnf
  /\ InitSlice
  /\ InitTree
  /\ InitCalls

NextParse == ReadLine \/ EndOfFile \/ EndOfFileAssert

SpecParse == InitParse /\ [][NextParse]_vars

(***************************************************************************)
(* Claims about the parser, checked under SpecParse.                       *)
(***************************************************************************)
\* a step that reads one more line
ReadsLine == pc = "parsing" /\ lineIndex' = lineIndex + 1

\* C7: the parser accepts exactly one problem line: a second problem line
\* of either form ("p ..." or "* #variable= ..."), in either order, ends
\* the parse with a fatal MyError, a constraint line before the problem
\* line does too, and a parse completes only after a problem line.
C7_OneProblemLine ==
  [][/\ (ReadsLine /\ Branch(line') \in {"problem", "wbo"}
           /\ problemLineIndex # MIN_INT) => pc' = "fatal"
     /\ (ReadsLine /\ Branch(line') = "clause"
           /\ problemLineIndex = MIN_INT) => pc' = "fatal"
     /\ (pc = "parsing" /\ pc' = "done") => problemLineIndex # MIN_INT]_vars

\* C8: after the problem line, a clause line holding only "0" (an empty
\* clause) leaves the parser parsing: the next lines are still read and the
\* post-parse completion still runs, no exception reaches the caller.
C8_EmptyClauseContinues ==
  [][(ReadsLine /\ problemLineIndex # MIN_INT /\ line' = <<"0">>)
       => pc' = "parsing"]_vars

\* C9: after a parse that completes literalWeights has an entry for every
\* literal l with 1 <= |l| <= declaredVarCount, and for every variable v
\* either both weights are the supplied ones, or exactly one was supplied
\* and the other is 1 minus it, or none was supplied (or weighted counting
\* is off) and both are 1.
C9_LiteralWeightsComplete ==
  pc = "done" =>
    /\ \A l \in -declaredVarCount .. declaredVarCount :
          l # 0 => l \in DOMAIN literalWeights
    /\ \A v \in 1 .. declaredVarCount :
          LET sp == v \in DOMAIN suppliedWeights
              sn == -v \in DOMAIN suppliedWeights
          IN \/ /\ sp /\ sn
                /\ literalWeights[v] = suppliedWeights[v]
                /\ literalWeights[-v] = suppliedWeights[-v]
             \/ /\ sp /\ ~sn
                /\ literalWeights[v] = suppliedWeights[v]
                /\ literalWeights[-v] = One - suppliedWeights[v]
             \/ /\ ~sp /\ sn
                /\ literalWeights[-v] = suppliedWeights[-v]
                /\ literalWeights[v] = One - suppliedWeights[-v]
             \/ /\ (~sp /\ ~sn) \/ ~weightedCounting
                /\ literalWeights[v] = One
                /\ literalWeights[-v] = One

\* C9 witness: "w 1 0.3" alone gives 0.3 to literal 1 and 0.7 to literal -1,
\* and variable 2, without a weight line, gets 1 and 1
C9_Witness ==
  /\ pc = "done"
  /\ weightedCounting
  /\ declaredVarCount = 2
  /\ suppliedWeights = (1 :> Number("0.3"))
  /\ literalWeights[1] = 3
  /\ literalWeights[-1] = 7
  /\ literalWeights[2] = 10
  /\ literalWeights[-2] = 10

(***************************************************************************)
(* SpecPB: pseudo-Boolean constraint lines through the parser.  After the  *)
(* problem line "p cnf 2 1" the file holds constraint lines                *)
(* "c1 x1 [c2 x2] cmp k 0" with every coefficient and right-hand side of   *)
(* PbRange and every comparator.                                           *)
(***************************************************************************)
PbBound == 2

PbRange == -PbBound .. PbBound

\* the word that stoll reads as n
IntStr(n) == CHOOSE w \in DOMAIN StollTable : StollTable[w] = n

PbLines ==
  { <<IntStr(c1), "x1", cmp, IntStr(k), "0">> :
      c1 \in PbRange, cmp \in {">=", "=", "<="}, k \in PbRange }
  \cup
  { <<IntStr(c1), "x1", IntStr(c2), "x2", cmp, IntStr(k), "0">> :
      c1 \in PbRange, c2 \in PbRange, cmp \in {">=", "=", "<="},
      k \in PbRange }

InitPB ==
  /\ weightedCounting = FALSE
  /\ projectedCounting = FALSE
  /\ maxsatSolving = FALSE
  /\ minMaxsatSolving = FALSE
  /\ multiplePrecision = FALSE
  /\ logCounting = FALSE
  /\ InitParser
  /\ InitCnf
  /\ InitSlice
  /\ InitTree
  /\ InitCalls

ReadPbProblemLine == ProblemLine(<<"p", "cnf", "2", "1">>)

\* PB_canonicalize reads nothing of the Cnf, so one constraint line per file
\* shows all it can do
ReadPbLine ==
  \E words \in PbLines : clauses = <<>> /\ ClauseLine(words)

NextPB == ReadPbProblemLine \/ ReadPbLine

SpecPB == InitPB /\ [][NextPB]_vars

\* the value of a key of a coefficient map under an assignment of 0/1 to
\* the variables: key v is x_v, key -v is the negation of x_v
KeyValue(key, assignment) ==
  IF key > 0 THEN assignment[key] ELSE 1 - assignment[-key]

RECURSIVE PbSum(_, _, _)
PbSum(coefs, keys, assignment) ==
  IF keys = {}
  THEN 0
  ELSE LET key == CHOOSE x \in keys : TRUE
       IN coefs[key] * KeyValue(key, assignment)
            + PbSum(coefs, keys \ {key}, assignment)

PbHolds(coefs, comparator, k, assignment) ==
  LET sum == PbSum(coefs, DOMAIN coefs, assignment)
  IN CASE comparator = 1 -> sum >= k
       [] comparator = 2 -> sum = k
       [] comparator = 3 -> sum <= k
       [] OTHER -> FALSE

PbAssignments == [1 .. 2 -> {0, 1}]

\* the constraint line just read was stored as the last constraint
PbLineStored ==
  /\ pc = "parsing"
  /\ line \in PbLines
  /\ Len(clauses) > 0

\* the stored constraint has the satisfying assignments of the line's
PbSameAssignments ==
  LET in == PbParse(line)
      n == Len(clauses)
  IN \A a \in PbAssignments :
        PbHolds(in.coefs, in.comparator, in.k, a)
          <=> PbHolds(coefLists[n], comparators[n], klist[n], a)

\* C2 as stated: after PB_canonicalize every coefficient of the coefficient
\* map is > 0, the comparator is >= (1) or = (2), and the canonical
\* constraint (key -v: the negation of x_v) has exactly the satisfying
\* assignments of the input constraint.
C2_Canonical ==
  PbLineStored =>
    LET n == Len(clauses)
    IN /\ \A key \in DOMAIN coefLists[n] : coefLists[n][key] > 0
       /\ comparators[n] \in {1, 2}
       /\ PbSameAssignments

\* C2 amended: every coefficient is >= 0, and > 0 unless the input
\* coefficient of its variable is 0 (a term "0 x_v" stays in the map with
\* coefficient 0); the comparator is >= (1) or = (2); the satisfying
\* assignments are those of the input constraint.
C2_CanonicalAmended ==
  PbLineStored =>
    LET n == Len(clauses)
        in == PbParse(line)
    IN /\ \A key \in DOMAIN coefLists[n] :
             /\ coefLists[n][key] >= 0
             /\ abs(key) \in DOMAIN in.coefs
             /\ in.coefs[abs(key)] # 0 => coefLists[n][key] > 0
       /\ \A var \in DOMAIN in.coefs :
             \E key \in DOMAIN coefLists[n] : abs(key) = var
       /\ comparators[n] \in {1, 2}
       /\ PbSameAssignments

\* C2 witness: "1 x1 -2 x2 <= 1 0" became 1 (not x1) + 2 x2 >= 0
C2_Witness ==
  /\ PbLineStored
  /\ line = <<"1", "x1", "-2", "x2", "<=", "1", "0">>
  /\ coefLists[1] = (-1 :> 1) @@ (2 :> 2)
  /\ clauses[1] = {-1, 2}
  /\ comparators[1] = 1
  /\ klist[1] = 0

(***************************************************************************)
(* class Assignment (logic.cc:941-971): a Map<Int, bool>.                  *)
(***************************************************************************)
\* Assignment(var, val), line 943
Assignment(var, val) == var :> val

\* extendAssignments pushing the true extension before the false one
extendAssignmentsTrueFirst(assignmentList, var) ==
  IF assignmentList = <<>>
  THEN <<Assignment(var, TRUE), Assignment(var, FALSE)>>
  ELSE [i \in 1 .. 2 * Len(assignmentList) |->
          MapPut(assignmentList[(i + 1) \div 2], var, i % 2 = 1)]

\* lines 956-971; the copy of the i-th assignment is pushed with var false
\* and then with var true
extendAssignments(assignmentList, var) ==
  IF assignmentList = <<>>
  THEN <<Assignment(var, FALSE), Assignment(var, TRUE)>>
  ELSE [i \in 1 .. 2 * Len(assignmentList) |->
          MapPut(assignmentList[(i + 1) \div 2], var, i % 2 = 0)]

(***************************************************************************)
(* SpecExtend: extendAssignments on every list of at most MaxAssignments   *)
(* partial assignments to the variables ExtendVars.                        *)
(***************************************************************************)
MaxAssignments == 2

ExtendVarCount == 2

ExtendVars == 1 .. ExtendVarCount

PartialAssignments == UNION {[D -> BOOLEAN] : D \in SUBSET ExtendVars}

InitExtend ==
  /\ weightedCounting = FALSE
  /\ projectedCounting = FALSE
  /\ maxsatSolving = FALSE
  /\ minMaxsatSolving = FALSE
  /\ multiplePrecision = FALSE
  /\ logCounting = FALSE
  /\ InitParser
  /\ InitCnf
  /\ InitTree
  /\ InitCalls
  /\ assignments \in UNION {[1 .. n -> PartialAssignments] : n \in 0 .. MaxAssignments}
  /\ extendVar = 0
  /\ InitOrder

ExtendAssignments ==
  \E var \in ExtendVars :
     /\ Len(assignments) <= MaxAssignments
     /\ assignments' = extendAssignments(assignments, var)
     /\ extendVar' = var
     /\ UNCHANGED <<flagVars, parserVars, cnfVars, orderVars, treeVars,
                   callVars, resetStack>>

NextExtend == ExtendAssignments

SpecExtend == InitExtend /\ [][NextExtend]_vars

\* assignment "extended" binds var to val and is "original" elsewhere
IsExtension(extended, original, var, val) ==
  /\ DOMAIN extended = (DOMAIN original) \cup {var}
  /\ extended[var] = val
  /\ \A other \in (DOMAIN original) \ {var} : extended[other] = original[other]

\* C6: extendAssignments(A, v) has length max(2, 2 * |A|); for each i the
\* elements 2i and 2i+1 (counted from 0) are the i-th input with v bound to
\* false and to true, all other bindings unchanged; for empty A the result
\* is [{v: false}, {v: true}].
C6_ExtendAssignments ==
  [][assignments' # assignments =>
       LET n == Len(assignments)
       IN /\ Len(assignments') = IF 2 * n > 2 THEN 2 * n ELSE 2
          /\ \A i \in 1 .. n :
                /\ IsExtension(assignments'[2 * i - 1], assignments[i],
                               extendVar', FALSE)
                /\ IsExtension(assignments'[2 * i], assignments[i],
                               extendVar', TRUE)
          /\ n = 0 => assignments' = <<(extendVar' :> FALSE),
                                       (extendVar' :> TRUE)>>]_vars

\* C6 witness: [{1: true}, {2: true}] extended with variable 2, which the
\* second input already binds
C6_Witness ==
  /\ extendVar = 2
  /\ assignments = << (1 :> TRUE) @@ (2 :> FALSE), (1 :> TRUE) @@ (2 :> TRUE),
                      (2 :> FALSE), (2 :> TRUE) >>

(***************************************************************************)
(* Join trees (logic.cc:973-1072, 1238-1259).  A node is a record; the     *)
(* children of a nonterminal are positions in "nodes" of nodes built       *)
(* before it.  The field "terminal" records the constructor that built     *)
(* the node.                                                               *)
(***************************************************************************)
\* Clause::getClauseVars, lines 351-357
getClauseVars(clause) == {abs(literal) : literal \in clause}

\* getPostProjectionVars without the difference
getPostProjectionVarsKeepsAll(node) == node.preProjectionVars

\* JoinNode::getPostProjectionVars, lines 1001-1003
getPostProjectionVars(node) == node.preProjectionVars \ node.projectionVars

\* JoinNode::isTerminal, lines 1049-1051
isTerminal(node) == node.nodeIndex < terminalCount

\* unionize that overwrites the set
unionizeOverwrite(set, other) == other

\* util::unionize as called at line 1257
unionize(set, other) == set \cup other

\* the loop of lines 1256-1258 over children[i..]
RECURSIVE ChildrenLoop(_, _, _)
ChildrenLoop(children, i, preProjectionVars) ==
  IF i > Len(children)
  THEN preProjectionVars
  ELSE ChildrenLoop(children, i + 1,
         unionize(preProjectionVars, getPostProjectionVars(nodes[children[i]])))

MaxNodes == 3

MaxChildren == 2

MaxRequestedIndex == 2

MaxResetNodes == 1

TreeBuilding == pc = "done" /\ Len(nodes) < MaxNodes

\* JoinTerminal::JoinTerminal, lines 1066-1072; clauses.at throws after the
\* counters are incremented
JoinTerminal ==
  /\ TreeBuilding
  /\ LET nodeIndex == terminalCount
     IN /\ terminalCount' = terminalCount + 1
        /\ nodeCount' = nodeCount + 1
        /\ IF nodeIndex < Len(clauses)
           THEN /\ nodes' = Append(nodes,
                      [terminal |-> TRUE,
                       nodeIndex |-> nodeIndex,
                       children |-> <<>>,
                       projectionVars |-> {},
                       preProjectionVars |-> getClauseVars(clauses[nodeIndex + 1])])
                /\ pc' = pc
           ELSE /\ nodes' = nodes
                /\ pc' = "crash"
  /\ UNCHANGED <<line, lineIndex, problemLineIndex, wcnfFlag, hwcnfFlag,
                 flagVars, cnfVars, sliceVars, nonterminalIndices, backupVars,
                 callVars, resetStack>>

\* a constructor that counts the node before it checks the requested index
JoinNonterminalCountsFirst(children, projectionVars, requestedNodeIndex) ==
  /\ TreeBuilding
  /\ UNCHANGED <<line, lineIndex, problemLineIndex, wcnfFlag, hwcnfFlag,
                 flagVars, cnfVars, sliceVars, terminalCount, backupVars,
                 callVars, resetStack>>
  /\ nodeCount' = nodeCount + 1
  /\ IF /\ requestedNodeIndex # MIN_INT
        /\ \/ requestedNodeIndex < terminalCount
           \/ requestedNodeIndex \in nonterminalIndices
     THEN /\ pc' = "fatal"
          /\ UNCHANGED <<nonterminalIndices, nodes>>
     ELSE LET nodeIndex == IF requestedNodeIndex = MIN_INT
                           THEN nodeCount
                           ELSE requestedNodeIndex
          IN /\ nonterminalIndices' = nonterminalIndices \cup {nodeIndex}
             /\ nodes' = Append(nodes,
                   [terminal |-> FALSE,
                    nodeIndex |-> nodeIndex,
                    children |-> children,
                    projectionVars |-> projectionVars,
                    preProjectionVars |-> ChildrenLoop(children, 1, {})])
             /\ pc' = pc

\* JoinNonterminal::JoinNonterminal, lines 1238-1259
JoinNonterminal(children, projectionVars, requestedNodeIndex) ==
  /\ TreeBuilding
  /\ UNCHANGED <<line, lineIndex, problemLineIndex, wcnfFlag, hwcnfFlag,
                 flagVars, cnfVars, sliceVars, terminalCount, backupVars,
                 callVars, resetStack>>
  /\ IF /\ requestedNodeIndex # MIN_INT
        /\ \/ requestedNodeIndex < terminalCount
           \/ requestedNodeIndex \in nonterminalIndices
     THEN /\ pc' = "fatal"
          /\ UNCHANGED <<nodeCount, nonterminalIndices, nodes>>
     ELSE LET nodeIndex == IF requestedNodeIndex = MIN_INT
                           THEN nodeCount
                           ELSE requestedNodeIndex
          IN /\ nonterminalIndices' = nonterminalIndices \cup {nodeIndex}
             /\ nodeCount' = nodeCount + 1
             /\ nodes' = Append(nodes,
                   [terminal |-> FALSE,
                    nodeIndex |-> nodeIndex,
                    children |-> children,
                    projectionVars |-> projectionVars,
                    preProjectionVars |-> ChildrenLoop(children, 1, {})])
             /\ pc' = pc

\* JoinNode::resetStaticFields, lines 985-993; "nodes" holds the nodes built
\* since the static fields were last reset
resetStaticFields ==
  /\ pc = "done"
  /\ Len(nodes) <= MaxResetNodes
  /\ backupNodeCount' = nodeCount
  /\ backupTerminalCount' = terminalCount
  /\ backupNonterminalIndices' = nonterminalIndices
  /\ nodeCount' = 0
  /\ terminalCount' = 0
  /\ nonterminalIndices' = {}
  /\ nodes' = <<>>
  /\ UNCHANGED <<flagVars, parserVars, cnfVars, sliceVars, callVars>>

(***************************************************************************)
(* SpecTree: JoinNode::cnf is read from the file TreeFile (or a prefix of  *)
(* it), then nodes are constructed.                                        *)
(***************************************************************************)
TreeFile ==
  << <<"p", "cnf", "3", "2">>, <<"1", "2", "0">>, <<"2", "3", "0">> >>

TreeVars == 1 .. 3

ChildLists == UNION {[1 .. n -> 1 .. Len(nodes)] : n \in 0 .. MaxChildren}

ProjectionSets == {vs \in SUBSET TreeVars : Cardinality(vs) <= 1}

RequestedIndices == {MIN_INT} \cup (0 .. MaxRequestedIndex)

InitTreeFile ==
  /\ weightedCounting = FALSE
  /\ projectedCounting = FALSE
  /\ maxsatSolving = FALSE
  /\ minMaxsatSolving = FALSE
  /\ multiplePrecision = FALSE
  /\ logCounting = FALSE
  /\ InitParser
  /\ InitCnf
  /\ InitSlice
  /\ InitTree
  /\ InitCalls

TreeLineAvailable == lineIndex < Len(TreeFile)

ReadTreeProblemLine == TreeLineAvailable /\ ProblemLine(TreeFile[lineIndex + 1])

ReadTreeClauseLine == TreeLineAvailable /\ ClauseLine(TreeFile[lineIndex + 1])

BuildNonterminal ==
  \E children \in ChildLists, projectionVars \in ProjectionSets,
     requestedNodeIndex \in RequestedIndices :
     JoinNonterminal(children, projectionVars, requestedNodeIndex)

NextTree ==
  \/ ReadTreeProblemLine
  \/ ReadTreeClauseLine
  \/ EndOfFile
  \/ JoinTerminal
  \/ BuildNonterminal
  \/ resetStaticFields /\ UNCHANGED resetStack

SpecTree == InitTreeFile /\ [][NextTree]_vars

Nonterminals == {i \in 1 .. Len(nodes) : ~nodes[i].terminal}

Terminals == {i \in 1 .. Len(nodes) : nodes[i].terminal}

ChildSet(i) == {nodes[i].children[j] : j \in 1 .. Len(nodes[i].children)}

\* C3: every nonterminal's preProjectionVars is the union of its children's
\* getPostProjectionVars(), and its getPostProjectionVars() is its
\* preProjectionVars minus its projectionVars; two terminals over clauses
\* {1,2} and {2,3} joined with projectionVars {2} give preProjectionVars
\* {1,2,3} and postProjectionVars {1,3}.
C3_PrePostProjectionVars ==
  \A i \in Nonterminals :
     /\ nodes[i].preProjectionVars =
          UNION {getPostProjectionVars(nodes[c]) : c \in ChildSet(i)}
     /\ getPostProjectionVars(nodes[i]) =
          nodes[i].preProjectionVars \ nodes[i].projectionVars
     /\ ( /\ Len(nodes[i].children) = 2
          /\ nodes[nodes[i].children[1]].terminal
          /\ nodes[nodes[i].children[2]].terminal
          /\ nodes[nodes[i].children[1]].preProjectionVars = {1, 2}
          /\ nodes[nodes[i].children[2]].preProjectionVars = {2, 3}
          /\ nodes[i].projectionVars = {2} )
        => /\ nodes[i].preProjectionVars = {1, 2, 3}
           /\ getPostProjectionVars(nodes[i]) = {1, 3}

\* C3 witness: the two terminals over {1,2} and {2,3} joined with
\* projectionVars {2}
C3_Witness ==
  \E i \in Nonterminals :
     /\ Len(nodes[i].children) = 2
     /\ nodes[nodes[i].children[1]].terminal
     /\ nodes[nodes[i].children[2]].terminal
     /\ nodes[nodes[i].children[1]].preProjectionVars = {1, 2}
     /\ nodes[nodes[i].children[2]].preProjectionVars = {2, 3}
     /\ nodes[i].projectionVars = {2}
     /\ nodes[i].preProjectionVars = {1, 2, 3}
     /\ getPostProjectionVars(nodes[i]) = {1, 3}

\* the paths from node i down to a leaf, as sequences of positions
RECURSIVE PathsFrom(_)
PathsFrom(i) ==
  IF nodes[i].children = <<>>
  THEN {<<i>>}
  ELSE UNION {{<<i>> \o p : p \in PathsFrom(c)} : c \in ChildSet(i)}

TreePaths == UNION {PathsFrom(i) : i \in 1 .. Len(nodes)}

\* C4: for every variable x and every root-to-leaf path of every tree
\* built, exactly one node on the path has x in its projectionVars.
C4_ProjectedOncePerPath ==
  \A p \in TreePaths : \A x \in TreeVars :
     Cardinality({j \in 1 .. Len(p) : x \in nodes[p[j]].projectionVars}) = 1

\* C4 as the constructors guarantee it: on every path from a node down to
\* a leaf, a variable x of the leaf's preProjectionVars is in the
\* preProjectionVars of every node that has no node below it on the path
\* with x in projectionVars, and a node with x in projectionVars does not
\* have x in its getPostProjectionVars().
C4_ProjectedAtLowest ==
  \A p \in TreePaths : \A x \in nodes[p[Len(p)]].preProjectionVars :
     \A j \in 1 .. Len(p) :
        (\A below \in j + 1 .. Len(p) : x \notin nodes[p[below]].projectionVars)
        => /\ x \in nodes[p[j]].preProjectionVars
           /\ x \in nodes[p[j]].projectionVars
                => x \notin getPostProjectionVars(nodes[p[j]])

\* C4 witness: a path of three nodes whose leaf is the terminal over {1,2};
\* variable 2 is in projectionVars of the middle node and of the root
C4_Witness ==
  \E p \in TreePaths :
     /\ Len(p) = 3
     /\ nodes[p[3]].terminal
     /\ nodes[p[3]].preProjectionVars = {1, 2}
     /\ nodes[p[2]].projectionVars = {2}
     /\ nodes[p[1]].projectionVars = {2}
     /\ nodes[p[2]].preProjectionVars = {1, 2}
     /\ nodes[p[1]].preProjectionVars = {1}

\* C10: after successful constructions the nodes have pairwise distinct
\* nodeIndex values, every terminal's index is in [0, terminalCount), every
\* nonterminal's index is >= terminalCount, and isTerminal() is true
\* exactly for the nodes constructed as terminals.
C10_NodeIndices ==
  pc = "done" =>
    /\ \A i, j \in 1 .. Len(nodes) :
          i # j => nodes[i].nodeIndex # nodes[j].nodeIndex
    /\ \A i \in Terminals :
          nodes[i].nodeIndex >= 0 /\ nodes[i].nodeIndex < terminalCount
    /\ \A i \in Nonterminals : nodes[i].nodeIndex >= terminalCount
    /\ \A i \in 1 .. Len(nodes) : isTerminal(nodes[i]) = nodes[i].terminal

(***************************************************************************)
(* class Graph (logic.cc:242-329): a record of the vertex set and the      *)
(* adjacency map.                                                          *)
(***************************************************************************)
\* Graph::Graph, lines 242-247
Graph(vs) == [vertices |-> vs, adjacencyMap |-> [v \in vs |-> {}]]

\* Graph::addEdge, lines 249-252
addEdge(graph, v1, v2) ==
  [graph EXCEPT !.adjacencyMap =
     [v \in DOMAIN @ |-> IF v = v1 /\ v = v2 THEN @[v] \cup {v1}
                         ELSE IF v = v1 THEN @[v] \cup {v2}
                         ELSE IF v = v2 THEN @[v] \cup {v1}
                         ELSE @[v]]]

\* addEdge for every pair in "edges"
RECURSIVE AddEdges(_, _)
AddEdges(graph, edges) ==
  IF edges = {}
  THEN graph
  ELSE LET e == CHOOSE edge \in edges : TRUE
       IN AddEdges(addEdge(graph, e[1], e[2]), edges \ {e})

\* Graph::isNeighbor, lines 254-256
isNeighbor(graph, v1, v2) == v2 \in graph.adjacencyMap[v1]

\* a removeVertex that erases only the entry of v, not the edges to v
removeVertexKeepsEdges(graph, v) ==
  [vertices |-> graph.vertices \ {v},
   adjacencyMap |-> [w \in (DOMAIN graph.adjacencyMap) \ {v} |->
                       graph.adjacencyMap[w]]]

\* Graph::removeVertex, lines 280-288
removeVertex(graph, v) ==
  [vertices |-> graph.vertices \ {v},
   adjacencyMap |-> [w \in (DOMAIN graph.adjacencyMap) \ {v} |->
                       graph.adjacencyMap[w] \ {v}]]

\* removeVertex for every vertex in vs
RECURSIVE RemoveVertices(_, _)
RemoveVertices(graph, vs) ==
  IF vs = {}
  THEN graph
  ELSE LET v == CHOOSE w \in vs : TRUE
       IN RemoveVertices(removeVertex(graph, v), vs \ {v})

\* the pairs of two different elements of a set, each pair once as the
\* nested iterator loops of lines 292-293 and 302-303 visit it
NeighborPairs(neighbors) ==
  {pair \in neighbors \X neighbors : pair[1] < pair[2]}

\* Graph::fillInEdges, lines 290-297
fillInEdges(graph, v) == AddEdges(graph, NeighborPairs(graph.adjacencyMap[v]))

\* a count of all the pairs of neighbours, adjacent or not
countNeighborPairs(graph, v) ==
  Cardinality(NeighborPairs(graph.adjacencyMap[v]))

\* Graph::countFillInEdges, lines 299-310
countFillInEdges(graph, v) ==
  Cardinality({pair \in NeighborPairs(graph.adjacencyMap[v]) :
                 ~isNeighbor(graph, pair[1], pair[2])})

\* Graph::getMinfillVertex, lines 312-329: the first vertex in iteration
\* order with the least count, so any vertex with the least count
getMinfillVertex(graph) ==
  {v \in graph.vertices :
     \A w \in graph.vertices :
        countFillInEdges(graph, v) <= countFillInEdges(graph, w)}

\* Graph::hasPath, lines 258-273: the depth-first search with the shared
\* set visitedVertices; the result is [found, visitedVertices]
RECURSIVE hasPathVisit(_, _, _, _)
RECURSIVE hasPathLoop(_, _, _, _)
hasPathVisit(graph, from, to, visitedVertices) ==
  IF from = to
  THEN [found |-> TRUE, visitedVertices |-> visitedVertices]
  ELSE hasPathLoop(graph,
                   graph.adjacencyMap[from] \ (visitedVertices \cup {from}),
                   to, visitedVertices \cup {from})

hasPathLoop(graph, unvisitedNeighbors, to, visitedVertices) ==
  IF unvisitedNeighbors = {}
  THEN [found |-> FALSE, visitedVertices |-> visitedVertices]
  ELSE LET v == CHOOSE w \in unvisitedNeighbors : TRUE
           r == hasPathVisit(graph, v, to, visitedVertices)
       IN IF r.found
          THEN r
          ELSE hasPathLoop(graph, unvisitedNeighbors \ {v}, to,
                           r.visitedVertices)

\* a search that stops after the neighbours of "from"
hasPathOneEdge(graph, from, to) ==
  from = to \/ to \in graph.adjacencyMap[from]

\* Graph::hasPath, lines 275-278
hasPath(graph, from, to) == hasPathVisit(graph, from, to, {}).found

(***************************************************************************)
(* class Label (logic.cc:333-340): a vector of numbers kept in decreasing  *)
(* order.                                                                  *)
(***************************************************************************)
\* Label::addNumber, lines 333-336
addNumber(label, i) ==
  LET k == Cardinality({j \in 1 .. Len(label) : label[j] >= i})
  IN SubSeq(label, 1, k) \o <<i>> \o SubSeq(label, k + 1, Len(label))

\* operator< of vector<Int>, used by Label::hasSmallerLabel, lines 338-340
hasSmallerLabel(a, b) ==
  \E i \in 1 .. Len(b) :
     /\ \A j \in 1 .. i - 1 : j <= Len(a) /\ a[j] = b[j]
     /\ i = Len(a) + 1 \/ (i <= Len(a) /\ a[i] < b[i])

\* max_element over a Map<Int, Label> with hasSmallerLabel: the first
\* entry in iteration order that no entry exceeds, so any such entry
max_element(unnumberedVertices) ==
  {v \in DOMAIN unnumberedVertices :
     \A w \in DOMAIN unnumberedVertices :
        ~hasSmallerLabel(unnumberedVertices[v], unnumberedVertices[w])}

(***************************************************************************)
(* Variable orders (logic.cc:415-611).  A container of the program that    *)
(* is iterated in hash order may be iterated in any order, so each         *)
(* heuristic is the set of the orders it can return.                       *)
(***************************************************************************)
\* Cnf::getPrimalGraph, lines 415-427
getPrimalGraph ==
  AddEdges(Graph(apparentVars),
           UNION {{<<abs(pair[1]), abs(pair[2])>> :
                     pair \in NeighborPairs(clauses[c])} :
                  c \in 1 .. Len(clauses)})

Orderings(vs) ==
  {order \in [1 .. Cardinality(vs) -> vs] :
     \A v \in vs : \E i \in 1 .. Cardinality(vs) : order[i] = v}

\* Cnf::getRandomVarOrder, lines 429-435
getRandomVarOrder == Orderings(apparentVars)

\* Cnf::getDeclaredVarOrder, lines 437-445
RECURSIVE DeclaredLoop(_, _)
DeclaredLoop(var, order) ==
  IF var > declaredVarCount
  THEN order
  ELSE DeclaredLoop(var + 1, IF var \in apparentVars
                             THEN Append(order, var)
                             ELSE order)

getDeclaredVarOrder == {DeclaredLoop(1, <<>>)}

\* Cnf::getMostClausesVarOrder, lines 447-458: the multimap keeps entries of
\* equal clause count in the order varToClauses is iterated
getMostClausesVarOrder ==
  {order \in Orderings(DOMAIN varToClauses) :
     \A i, j \in 1 .. Len(order) :
        i < j => Cardinality(varToClauses[order[i]])
                   >= Cardinality(varToClauses[order[j]])}

\* Cnf::getMinfillVarOrder, lines 460-472
RECURSIVE MinfillLoop(_, _)
MinfillLoop(graph, order) ==
  IF graph.vertices = {}
  THEN {order}
  ELSE UNION {MinfillLoop(removeVertex(fillInEdges(graph, vertex), vertex),
                          Append(order, vertex)) :
              vertex \in getMinfillVertex(graph)}

getMinfillVarOrder == MinfillLoop(getPrimalGraph, <<>>)

\* counts that only erase bestVertex and are never incremented
McsCountsErasesOnly(graph, rankedNeighborCounts, bestVertex) ==
  MapErase(rankedNeighborCounts, bestVertex)

\* lines 491-496: counts the new ranked neighbor of every unranked neighbor
McsCounts(graph, rankedNeighborCounts, bestVertex) ==
  LET erased == MapErase(rankedNeighborCounts, bestVertex)
  IN [n \in DOMAIN erased |->
        IF n \in graph.adjacencyMap[bestVertex]
        THEN erased[n] + 1
        ELSE erased[n]]

\* Cnf::getMcsVarOrder, the do-while loop of lines 486-508
RECURSIVE McsLoop(_, _, _, _)
McsLoop(graph, rankedNeighborCounts, bestVertex, order) ==
  LET counts == McsCounts(graph, rankedNeighborCounts, bestVertex)
      best == {n \in DOMAIN counts :
                 \A other \in DOMAIN counts : counts[n] >= counts[other]}
  IN IF counts = EmptyMap
     THEN {Append(order, bestVertex)}
     ELSE UNION {McsLoop(graph, counts, n, Append(order, bestVertex)) :
                 n \in best}

\* Cnf::getMcsVarOrder, lines 474-514
getMcsVarOrder ==
  LET graph == getPrimalGraph
  IN IF graph.vertices = {}
     THEN {<<>>}
     ELSE UNION {McsLoop(graph,
                         [v \in graph.vertices \ {startVertex} |-> 0],
                         startVertex, <<>>) :
                 startVertex \in graph.vertices}

\* lines 527-533: the labels of the unnumbered neighbors get the number
LexpLabels(graph, unnumberedVertices, vertex, number) ==
  [v \in DOMAIN unnumberedVertices |->
     IF v \in graph.adjacencyMap[vertex]
     THEN addNumber(unnumberedVertices[v], number)
     ELSE unnumberedVertices[v]]

\* Cnf::getLexpVarOrder, the loop of lines 523-534
RECURSIVE LexpLoop(_, _, _, _)
LexpLoop(graph, unnumberedVertices, numberedVertices, number) ==
  IF number <= 0
  THEN {numberedVertices}
  ELSE UNION {LexpLoop(graph,
                       LexpLabels(graph, MapErase(unnumberedVertices, vertex),
                                  vertex, number),
                       Append(numberedVertices, vertex), number - 1) :
              vertex \in max_element(unnumberedVertices)}

\* Cnf::getLexpVarOrder, lines 516-536
getLexpVarOrder ==
  LexpLoop(getPrimalGraph, [vertex \in apparentVars |-> <<>>], <<>>,
           Cardinality(apparentVars))

\* Cnf::getLexmVarOrder, the loop of lines 551-574 over the vertices w in
\* "todo"; subgraph is the one graph built at line 550, and the labels
\* compared are the labels as they are when w is visited
RECURSIVE LexmLabels(_, _, _, _, _, _)
LexmLabels(subgraph, unnumberedVertices, todo, v, numberedVertices, i) ==
  IF todo = {}
  THEN {unnumberedVertices}
  ELSE UNION {
         LET removed ==
               RemoveVertices(
                 RemoveVertices(subgraph,
                   {numberedVertices[n] : n \in 1 .. Len(numberedVertices)} \ {v}),
                 {u \in DOMAIN unnumberedVertices :
                    /\ u # w
                    /\ ~hasSmallerLabel(unnumberedVertices[u],
                                        unnumberedVertices[w])})
             labels ==
               IF hasPath(removed, v, w)
               THEN MapPut(unnumberedVertices, w,
                           addNumber(unnumberedVertices[w], i))
               ELSE unnumberedVertices
         IN LexmLabels(removed, labels, todo \ {w}, v, numberedVertices, i) :
         w \in todo}

\* Cnf::getLexmVarOrder, the loop of lines 544-576
RECURSIVE LexmLoop(_, _, _)
LexmLoop(unnumberedVertices, numberedVertices, i) ==
  IF i <= 0
  THEN {numberedVertices}
  ELSE UNION {
         LET numbered == Append(numberedVertices, v)
             unnumbered == MapErase(unnumberedVertices, v)
         IN UNION {LexmLoop(labels, numbered, i - 1) :
                   labels \in LexmLabels(getPrimalGraph, unnumbered,
                                         DOMAIN unnumbered, v, numbered, i)} :
         v \in max_element(unnumberedVertices)}

\* Cnf::getLexmVarOrder, lines 538-578
getLexmVarOrder ==
  LexmLoop([vertex \in apparentVars |-> <<>>], <<>>,
           Cardinality(apparentVars))

\* std::reverse, line 607
reverse(order) == [i \in 1 .. Len(order) |-> order[Len(order) + 1 - i]]

\* the heuristic codes: "heuristic" is abs(cnfVarOrderHeuristic), "negative"
\* is cnfVarOrderHeuristic < 0
CnfVarOrderHeuristics ==
  [heuristic : {"RANDOM", "DECLARED", "MOST_CLAUSES", "MINFILL", "MCS",
                "LEXP", "LEXM"},
   negative : BOOLEAN]

\* Cnf::getCnfVarOrder, lines 580-611
getCnfVarOrder(cnfVarOrderHeuristic) ==
  LET orders ==
        CASE cnfVarOrderHeuristic.heuristic = "RANDOM" -> getRandomVarOrder
          [] cnfVarOrderHeuristic.heuristic = "DECLARED" -> getDeclaredVarOrder
          [] cnfVarOrderHeuristic.heuristic = "MOST_CLAUSES" ->
               getMostClausesVarOrder
          [] cnfVarOrderHeuristic.heuristic = "MINFILL" -> getMinfillVarOrder
          [] cnfVarOrderHeuristic.heuristic = "MCS" -> getMcsVarOrder
          [] cnfVarOrderHeuristic.heuristic = "LEXP" -> getLexpVarOrder
          [] OTHER -> getLexmVarOrder
  IN IF cnfVarOrderHeuristic.negative
     THEN {reverse(order) : order \in orders}
     ELSE orders

\* JoinNonterminal::getAdditiveAssignments, the loop of lines 1215-1225
RECURSIVE AdditiveLoop(_, _, _, _, _)
AdditiveLoop(order, i, assignedVars, count, assignmentList) ==
  IF ~(i < Len(order) /\ assignedVars < count)
  THEN assignmentList
  ELSE IF order[i + 1] \in additiveVars
       THEN AdditiveLoop(order, i + 1, assignedVars + 1, count,
                         extendAssignments(assignmentList, order[i + 1]))
       ELSE AdditiveLoop(order, i + 1, assignedVars, count, assignmentList)

\* JoinNonterminal::getAdditiveAssignments, lines 1198-1236, for the
\* heuristics of Cnf::getCnfVarOrder
getAdditiveAssignments(order, count) ==
  IF count <= 0
  THEN <<EmptyMap>>
  ELSE AdditiveLoop(order, 0, 0, count, <<>>)

(***************************************************************************)
(* SpecOrder: a formula is read from lines of FormulaLines, then           *)
(* getCnfVarOrder and getAdditiveAssignments are called on it.             *)
(***************************************************************************)
MaxSliceVarCount == 2

FormulaLines ==
  { <<"p", "cnf", "2", "1">>,
    <<"p", "cnf", "3", "2">>,
    <<"c", "p", "show", "1", "3", "0">>,
    <<"1", "2", "0">>,
    <<"2", "3", "0">>,
    <<"1", "-2", "0">>,
    <<"1", "-1", "0">>,
    <<"3", "0">>,
    <<"1", "x1", "1", "x3", ">=", "1", "0">> }

InitFormula ==
  /\ weightedCounting = FALSE
  /\ projectedCounting \in BOOLEAN
  /\ maxsatSolving = FALSE
  /\ minMaxsatSolving = FALSE
  /\ multiplePrecision = FALSE
  /\ logCounting = FALSE
  /\ InitParser
  /\ InitCnf
  /\ InitSlice
  /\ InitTree
  /\ InitCalls

ReadFormulaProblemLine == \E words \in FormulaLines : ProblemLine(words)

ReadFormulaShowLine == \E words \in FormulaLines : ShowLine(words)

ReadFormulaClauseLine == \E words \in FormulaLines : ClauseLine(words)

\* the functions called are const: every result they can give on a formula
\* is given by the first call
FirstCall == pc = "done" /\ returned = ""

\* a call of Cnf::getCnfVarOrder on the parsed formula
CallGetCnfVarOrder ==
  /\ FirstCall
  /\ \E cnfVarOrderHeuristic \in CnfVarOrderHeuristics :
        /\ varOrderHeuristic' = cnfVarOrderHeuristic
        /\ varOrder' \in getCnfVarOrder(cnfVarOrderHeuristic)
  /\ returned' = "getCnfVarOrder"
  /\ sliceVarCount' = 0
  /\ assignments' = <<>>
  /\ UNCHANGED <<flagVars, parserVars, cnfVars, extendVar, treeVars,
                 callVars, resetStack>>

\* a call of JoinNonterminal::getAdditiveAssignments; the variable order is
\* computed only where sliceVarCount > 0
CallGetAdditiveAssignments ==
  /\ FirstCall
  /\ \E cnfVarOrderHeuristic \in CnfVarOrderHeuristics,
        count \in -1 .. MaxSliceVarCount :
        /\ varOrderHeuristic' = cnfVarOrderHeuristic
        /\ sliceVarCount' = count
        /\ varOrder' \in IF count <= 0
                         THEN {<<>>}
                         ELSE getCnfVarOrder(cnfVarOrderHeuristic)
        /\ assignments' = getAdditiveAssignments(varOrder', count)
  /\ returned' = "getAdditiveAssignments"
  /\ UNCHANGED <<flagVars, parserVars, cnfVars, extendVar, treeVars,
                 callVars, resetStack>>

\* Cnf::getLexmVarOrder is entered on the parsed formula, lines 539-544
LexmStart ==
  /\ FirstCall
  /\ returned' = "getLexmVarOrder"
  /\ lexmUnnumbered' = [vertex \in apparentVars |-> <<>>]
  /\ lexmNumbered' = <<>>
  /\ UNCHANGED <<flagVars, parserVars, cnfVars, assignments, extendVar,
                 varOrderHeuristic, sliceVarCount, varOrder, treeVars,
                 graphObject, graphCall, clusterCall, resetStack>>

\* one iteration of the loop of Cnf::getLexmVarOrder, lines 545-576: the
\* vertex v is numbered i, then the labels of the unnumbered vertices are
\* updated
LexmStep ==
  /\ pc = "done"
  /\ returned = "getLexmVarOrder"
  /\ LET i == Cardinality(apparentVars) - Len(lexmNumbered)
     IN /\ i > 0
        /\ \E v \in max_element(lexmUnnumbered) :
              LET numbered == Append(lexmNumbered, v)
                  unnumbered == MapErase(lexmUnnumbered, v)
              IN /\ lexmNumbered' = numbered
                 /\ lexmUnnumbered' \in
                      LexmLabels(getPrimalGraph, unnumbered, DOMAIN unnumbered,
                                 v, numbered, i)
  /\ UNCHANGED <<flagVars, parserVars, cnfVars, sliceVars, treeVars,
                 graphObject, graphCall, clusterCall, resetStack>>

NextOrder ==
  \/ ReadFormulaProblemLine
  \/ ReadFormulaShowLine
  \/ ReadFormulaClauseLine
  \/ EndOfFile
  \/ CallGetCnfVarOrder
  \/ CallGetAdditiveAssignments
  \/ LexmStart
  \/ LexmStep

SpecOrder == InitFormula /\ [][NextOrder]_vars

\* C1: getCnfVarOrder(h) returns a sequence that contains every variable
\* of apparentVars exactly once and no other value, for every parsed
\* formula and each of the seven heuristics, negated or not.
C1_VarOrderIsPermutation ==
  returned = "getCnfVarOrder" =>
    /\ Len(varOrder) = Cardinality(apparentVars)
    /\ {varOrder[i] : i \in 1 .. Len(varOrder)} = apparentVars

\* C5: getAdditiveAssignments(h, k) returns exactly one empty assignment
\* when k <= 0 and exactly 2^min(k, a) assignments when k > 0, where a is
\* the number of additive variables in the variable order computed for h.
C5_AdditiveAssignmentCount ==
  returned = "getAdditiveAssignments" =>
    IF sliceVarCount <= 0
    THEN assignments = <<EmptyMap>>
    ELSE LET a == Cardinality({i \in 1 .. Len(varOrder) :
                                 varOrder[i] \in additiveVars})
         IN Len(assignments) = 2 ^ (IF sliceVarCount < a
                                    THEN sliceVarCount
                                    ELSE a)

(***************************************************************************)
(* SpecStatic: speculative construction.  JoinNode::cnf is read from       *)
(* TreeFile, then terminals and childless nonterminals are constructed,    *)
(* and the static fields are saved (resetStaticFields) and rolled back     *)
(* (restoreStaticFields), possibly one speculation inside another.         *)
(* "nodes" holds the nodes that the static fields count; resetStack        *)
(* remembers them and the static fields at every reset not yet answered.   *)
(***************************************************************************)
MaxResetDepth == 2

\* a call of resetStaticFields that opens a speculative construction
SpeculativeReset ==
  /\ Len(resetStack) < MaxResetDepth
  /\ resetStaticFields
  /\ resetStack' = Append(resetStack,
                     [nodeCount |-> nodeCount,
                      terminalCount |-> terminalCount,
                      nonterminalIndices |-> nonterminalIndices,
                      nodes |-> nodes])

\* JoinNode::restoreStaticFields, lines 995-999, closing the innermost
\* speculative construction
restoreStaticFields ==
  /\ pc = "done"
  /\ resetStack # <<>>
  /\ nodeCount' = backupNodeCount
  /\ terminalCount' = backupTerminalCount
  /\ nonterminalIndices' = backupNonterminalIndices
  /\ nodes' = resetStack[Len(resetStack)].nodes
  /\ resetStack' = SubSeq(resetStack, 1, Len(resetStack) - 1)
  /\ UNCHANGED <<flagVars, parserVars, cnfVars, sliceVars, backupVars,
                 callVars>>

BuildChildlessNonterminal ==
  \E requestedNodeIndex \in RequestedIndices :
     JoinNonterminal(<<>>, {}, requestedNodeIndex)

NextStatic ==
  \/ ReadTreeProblemLine
  \/ ReadTreeClauseLine
  \/ EndOfFile
  \/ JoinTerminal
  \/ BuildChildlessNonterminal
  \/ SpeculativeReset
  \/ restoreStaticFields

SpecStatic == InitTreeFile /\ [][NextStatic]_vars

(***************************************************************************)
(* C11: a JoinNonterminal constructed with a requested nodeIndex smaller   *)
(* than terminalCount or already in nonterminalIndices fails with a fatal  *)
(* error and leaves nodeCount, terminalCount and nonterminalIndices as     *)
(* they were; constructed with no requested index, the node gets the       *)
(* nodeIndex nodeCount and nodeCount grows by one.                         *)
(***************************************************************************)
C11_RequestedNodeIndex ==
  [][\A requestedNodeIndex \in RequestedIndices :
       JoinNonterminal(<<>>, {}, requestedNodeIndex) =>
         /\ (/\ requestedNodeIndex # MIN_INT
             /\ \/ requestedNodeIndex < terminalCount
                \/ requestedNodeIndex \in nonterminalIndices)
            => /\ pc' = "fatal"
               /\ nodeCount' = nodeCount
               /\ terminalCount' = terminalCount
               /\ nonterminalIndices' = nonterminalIndices
         /\ requestedNodeIndex = MIN_INT
            => /\ pc' = "done"
               /\ Len(nodes') = Len(nodes) + 1
               /\ nodes'[Len(nodes')].nodeIndex = nodeCount
               /\ nodeCount' = nodeCount + 1]_vars

\* after a terminal and a nonterminal of default index 1, a request for an
\* index below terminalCount or for the taken index 1 has failed
C11_Witness ==
  /\ pc = "fatal"
  /\ Len(nodes) = 2
  /\ nodes[2].nodeIndex = 1
  /\ terminalCount = 1
  /\ nonterminalIndices = {1}
  /\ nodeCount = 2

(***************************************************************************)
(* C20: resetStaticFields sets nodeCount and terminalCount to 0 and        *)
(* empties nonterminalIndices; restoreStaticFields, after a speculative    *)
(* construction, gives the three static fields the values they had         *)
(* immediately before the resetStaticFields that opened this construction, *)
(* also when one speculative construction is nested inside another.        *)
(***************************************************************************)
C20_RestoreUndoesReset ==
  [][/\ SpeculativeReset =>
          /\ nodeCount' = 0
          /\ terminalCount' = 0
          /\ nonterminalIndices' = {}
     /\ restoreStaticFields =>
          LET before == resetStack[Len(resetStack)]
          IN /\ nodeCount' = before.nodeCount
             /\ terminalCount' = before.terminalCount
             /\ nonterminalIndices' = before.nonterminalIndices]_vars

C18_NoSelfLoop ==
  pc = "done" =>
    \A v \in getPrimalGraph.vertices : ~isNeighbor(getPrimalGraph, v, v)

(***************************************************************************)
(* SpecGraph: a Graph is constructed from a set of vertices, then its      *)
(* member functions are called with vertices of the graph (a call with a   *)
(* vertex that the graph does not hold ends in adjacencyMap.at throwing).  *)
(* graphCall records the last call, its arguments and what it returned.    *)
(***************************************************************************)
MaxVertex == 3

GraphCall(op, v1, v2, result, graph) ==
  /\ graphCall' = [op |-> op, v1 |-> v1, v2 |-> v2, result |-> result]
  /\ graphObject' = graph
  /\ UNCHANGED <<flagVars, parserVars, cnfVars, sliceVars, treeVars,
                 lexmUnnumbered, lexmNumbered, clusterCall, resetStack>>

CallAddEdge ==
  \E v1 \in graphObject.vertices, v2 \in graphObject.vertices :
     GraphCall("addEdge", v1, v2, 0, addEdge(graphObject, v1, v2))

CallRemoveVertex ==
  \E v \in graphObject.vertices :
     GraphCall("removeVertex", v, 0, 0, removeVertex(graphObject, v))

CallFillInEdges ==
  \E v \in graphObject.vertices :
     GraphCall("fillInEdges", v, 0, 0, fillInEdges(graphObject, v))

CallCountFillInEdges ==
  \E v \in graphObject.vertices :
     GraphCall("countFillInEdges", v, 0, countFillInEdges(graphObject, v),
               graphObject)

CallHasPath ==
  \E from \in graphObject.vertices, to \in graphObject.vertices :
     GraphCall("hasPath", from, to, hasPath(graphObject, from, to),
               graphObject)

InitGraph ==
  /\ weightedCounting = FALSE
  /\ projectedCounting = FALSE
  /\ maxsatSolving = FALSE
  /\ minMaxsatSolving = FALSE
  /\ multiplePrecision = FALSE
  /\ logCounting = FALSE
  /\ InitParser
  /\ InitCnf
  /\ InitSlice
  /\ InitTree
  /\ \E vs \in SUBSET (1 .. MaxVertex) : graphObject = Graph(vs)
  /\ graphCall = [op |-> "Graph", v1 |-> 0, v2 |-> 0, result |-> 0]
  /\ lexmUnnumbered = <<>>
  /\ lexmNumbered = <<>>
  /\ clusterCall = NoCall

NextGraph ==
  \/ CallAddEdge
  \/ CallRemoveVertex
  \/ CallFillInEdges
  \/ CallCountFillInEdges
  \/ CallHasPath

SpecGraph == InitGraph /\ [][NextGraph]_vars

\* the neighbour set of v
Neighbors(v) == graphObject.adjacencyMap[v]

(***************************************************************************)
(* C12: in every Graph reached from Graph(vs) by addEdge, removeVertex and *)
(* fillInEdges on vertices of the graph, adjacency is symmetric, the keys  *)
(* of adjacencyMap are the vertices, and after removeVertex(v) the vertex  *)
(* v is in no neighbour set.                                               *)
(***************************************************************************)
C12_GraphInvariant ==
  /\ DOMAIN graphObject.adjacencyMap = graphObject.vertices
  /\ \A u \in graphObject.vertices, v \in graphObject.vertices :
        isNeighbor(graphObject, u, v) <=> isNeighbor(graphObject, v, u)
  /\ graphCall.op = "removeVertex" =>
        /\ graphCall.v1 \notin graphObject.vertices
        /\ \A w \in graphObject.vertices : graphCall.v1 \notin Neighbors(w)

\* vertex 2 has been removed from a graph that still holds the edge 1 - 3
C12_Witness ==
  /\ graphCall.op = "removeVertex"
  /\ graphCall.v1 = 2
  /\ graphObject.vertices = {1, 3}
  /\ Neighbors(1) = {3}

\* the unordered pairs of two different neighbours of v that are not adjacent
MissingPairs(v) ==
  {pair \in SUBSET Neighbors(v) :
     /\ Cardinality(pair) = 2
     /\ \E a \in pair, b \in pair : a # b /\ b \notin Neighbors(a)}

(***************************************************************************)
(* C13: countFillInEdges(v) returns the number of unordered pairs of       *)
(* neighbours of v that are not adjacent and leaves the graph as it was;   *)
(* after fillInEdges(v) every two different neighbours of v are adjacent,  *)
(* countFillInEdges(v) is 0, and the edges added are exactly the pairs     *)
(* that were missing.                                                      *)
(***************************************************************************)
C13_FillInEdges ==
  [][/\ graphCall'.op = "countFillInEdges" =>
          /\ graphCall'.result = Cardinality(MissingPairs(graphCall'.v1))
          /\ graphObject' = graphObject
     /\ graphCall'.op = "fillInEdges" =>
          LET v == graphCall'.v1
          IN /\ \A a \in Neighbors(v), b \in Neighbors(v) :
                   a # b => isNeighbor(graphObject', a, b)
             /\ countFillInEdges(graphObject', v) = 0
             /\ graphObject'.vertices = graphObject.vertices
             /\ \A a \in graphObject.vertices :
                   graphObject'.adjacencyMap[a] =
                     Neighbors(a) \cup {b \in graphObject.vertices :
                                          {a, b} \in MissingPairs(v)}]_vars

\* countFillInEdges has counted the one missing pair {2, 3} of vertex 1
C13_Witness ==
  /\ graphCall.op = "countFillInEdges"
  /\ graphCall.v1 = 1
  /\ graphCall.result = 1
  /\ Neighbors(1) = {2, 3}
  /\ Neighbors(2) = {1}

\* the vertices that a path of the graph joins to "from"
RECURSIVE ReachableFrom(_)
ReachableFrom(reached) ==
  LET more == reached \cup UNION {Neighbors(u) : u \in reached}
  IN IF more = reached THEN reached ELSE ReachableFrom(more)

(***************************************************************************)
(* C17: hasPath(from, to) returns true if and only if the edges of the     *)
(* graph join from to to; hasPath(v, v) is true; the graph is left as it   *)
(* was.                                                                    *)
(***************************************************************************)
C17_HasPath ==
  [][graphCall'.op = "hasPath" =>
       /\ graphCall'.result = (graphCall'.v2 \in ReachableFrom({graphCall'.v1}))
       /\ graphCall'.v1 = graphCall'.v2 => graphCall'.result = TRUE
       /\ graphObject' = graphObject]_vars

\* hasPath(1, 3) has found the path 1 - 2 - 3 in a graph without edge 1 - 3
C17_Witness ==
  /\ graphCall.op = "hasPath"
  /\ graphCall.v1 = 1
  /\ graphCall.v2 = 3
  /\ graphCall.result = TRUE
  /\ Neighbors(1) = {2}
  /\ Neighbors(3) = {2}

(***************************************************************************)
(* Claims about the MCS order, checked under SpecOrder.                    *)
(***************************************************************************)
McsReturned ==
  /\ returned = "getCnfVarOrder"
  /\ varOrderHeuristic = [heuristic |-> "MCS", negative |-> FALSE]

\* the number of neighbours of v among the first n vertices of varOrder
RankedNeighborCount(v, n) ==
  Cardinality({i \in 1 .. n : varOrder[i] \in getPrimalGraph.adjacencyMap[v]})

\* every vertex after the first had, when it was appended, the greatest
\* count of ranked neighbours among the vertices not yet ranked
McsPicksMaximum ==
  \A j \in 2 .. Len(varOrder) : \A k \in j .. Len(varOrder) :
     RankedNeighborCount(varOrder[j], j - 1)
       >= RankedNeighborCount(varOrder[k], j - 1)

\* C16: getMcsVarOrder starts from a vertex of the graph, appends at each
\* later step an unranked vertex whose count of ranked neighbours is
\* greatest, and its loop ends when no unranked vertex has a positive
\* count: every vertex appended after the first had a positive count.
C16_McsStopsAtZeroCount ==
  McsReturned =>
    /\ McsPicksMaximum
    /\ \A j \in 2 .. Len(varOrder) :
          RankedNeighborCount(varOrder[j], j - 1) > 0

\* C16 as the code has it: the loop ends only when no unranked vertex is
\* left, so a vertex with count 0 is appended too and the order holds
\* every vertex of the graph once.
C16_McsStopsWhenAllRanked ==
  McsReturned =>
    /\ McsPicksMaximum
    /\ Len(varOrder) = Cardinality(getPrimalGraph.vertices)
    /\ {varOrder[i] : i \in 1 .. Len(varOrder)} = getPrimalGraph.vertices

\* vertex 3, which has no neighbour, was appended with count 0
C16_Witness ==
  /\ McsReturned
  /\ clauses = <<{1, 2}, {3}>>
  /\ varOrder = <<1, 2, 3>>

(***************************************************************************)
(* Claims about the LEXM labels, checked under SpecOrder.                  *)
(***************************************************************************)
\* the vertices that a path of the primal graph inside "allowed" joins to
\* the vertices of "reached"
RECURSIVE ReachableInside(_, _)
ReachableInside(allowed, reached) ==
  LET more == reached \cup
                (allowed \cap
                   UNION {getPrimalGraph.adjacencyMap[u] : u \in reached})
  IN IF more = reached THEN reached ELSE ReachableInside(allowed, more)

\* a path from v to w in the subgraph induced by v, w and the unnumbered
\* vertices whose labels are less than the label of w
LexmPath(v, w, labels) ==
  w \in ReachableInside(
          {v, w} \cup {u \in DOMAIN labels :
                         hasSmallerLabel(labels[u], labels[w])},
          {v})

\* C15: at the step of getLexmVarOrder that gives vertex v the number i,
\* the number i is added to the label of an unnumbered vertex w if and only
\* if the primal graph has a path from v to w inside the subgraph induced
\* by v, w and the unnumbered vertices with labels less than the label of
\* w, for every unnumbered w and whatever the order of the visits.
C15_LexmLabelRule ==
  [][(returned = "getLexmVarOrder"
        /\ Len(lexmNumbered') = Len(lexmNumbered) + 1) =>
       LET v == lexmNumbered'[Len(lexmNumbered')]
           i == Cardinality(apparentVars) - Len(lexmNumbered)
           labels == MapErase(lexmUnnumbered, v)
       IN \A w \in DOMAIN labels :
             lexmUnnumbered'[w] = IF LexmPath(v, w, labels)
                                  THEN addNumber(labels[w], i)
                                  ELSE labels[w]]_vars

(***************************************************************************)
(* JoinNode::chooseClusterIndex (logic.cc:1005-1025).  The list            *)
(* projectableVarSets is indexed from 0 in the code and from 1 here.  The  *)
(* names of the clustering heuristics are constants of logic.hh.           *)
(***************************************************************************)
\* a loop that returns its first target without looking at the sets
TargetLoopTakesFirst(target, projectableVarSets, postProjectionVars) == target

\* the loop of lines 1019-1023
RECURSIVE TargetLoop(_, _, _)
TargetLoop(target, projectableVarSets, postProjectionVars) ==
  IF target >= Len(projectableVarSets)
  THEN Len(projectableVarSets)
  ELSE IF postProjectionVars \cap projectableVarSets[target + 1] # {}
  THEN target
  ELSE TargetLoop(target + 1, projectableVarSets, postProjectionVars)

chooseClusterIndex(node, clusterIndex, projectableVarSets, clusteringHeuristic) ==
  IF clusterIndex < 0 \/ clusterIndex >= Len(projectableVarSets)
  THEN [outcome |-> "fatal", result |-> 0]
  ELSE LET projectableVars ==
             UNION {projectableVarSets[t] : t \in 1 .. Len(projectableVarSets)}
           postProjectionVars == getPostProjectionVars(node)
       IN IF projectableVars \cap postProjectionVars = {}
          THEN [outcome |-> "ok", result |-> Len(projectableVarSets)]
          ELSE IF clusteringHeuristic \in {"BUCKET_LIST", "BOUQUET_LIST"}
          THEN [outcome |-> "ok", result |-> clusterIndex + 1]
          ELSE [outcome |-> "ok",
                result |-> TargetLoop(clusterIndex + 1, projectableVarSets,
                                      postProjectionVars)]

(***************************************************************************)
(* SpecCluster: chooseClusterIndex is called once on a node, a list of     *)
(* sets of variables, a cluster index and a heuristic.                     *)
(***************************************************************************)
MaxClusters == 3

ClusterVars == {1, 2}

ClusterCalls ==
  [node : [preProjectionVars : SUBSET ClusterVars,
           projectionVars : {{}, {1}}],
   clusterIndex : -1 .. MaxClusters,
   projectableVarSets :
     UNION {[1 .. m -> SUBSET ClusterVars] : m \in 0 .. MaxClusters},
   clusteringHeuristic :
     {"BUCKET_LIST", "BOUQUET_LIST", "BUCKET_TREE", "BOUQUET_TREE"},
   outcome : {""},
   result : {0}]

InitCluster ==
  /\ weightedCounting = FALSE
  /\ projectedCounting = FALSE
  /\ maxsatSolving = FALSE
  /\ minMaxsatSolving = FALSE
  /\ multiplePrecision = FALSE
  /\ logCounting = FALSE
  /\ InitParser
  /\ InitCnf
  /\ InitSlice
  /\ InitTree
  /\ graphObject = Graph({})
  /\ graphCall = NoCall
  /\ lexmUnnumbered = <<>>
  /\ lexmNumbered = <<>>
  /\ clusterCall \in ClusterCalls

CallChooseClusterIndex ==
  /\ clusterCall.outcome = ""
  /\ LET r == chooseClusterIndex(clusterCall.node, clusterCall.clusterIndex,
                                 clusterCall.projectableVarSets,
                                 clusterCall.clusteringHeuristic)
     IN clusterCall' = [clusterCall EXCEPT !.outcome = r.outcome,
                                           !.result = r.result]
  /\ UNCHANGED <<flagVars, parserVars, cnfVars, sliceVars, treeVars,
                 graphObject, graphCall, lexmUnnumbered, lexmNumbered,
                 resetStack>>

SpecCluster == InitCluster /\ [][CallChooseClusterIndex]_vars

(***************************************************************************)
(* C19: with m sets and clusterIndex in [0, m), chooseClusterIndex returns *)
(* m when the node's postProjectionVars meets none of the sets; otherwise  *)
(* clusterIndex + 1 under BUCKET_LIST and BOUQUET_LIST, and under the tree *)
(* heuristics the smallest index t > clusterIndex whose set meets          *)
(* postProjectionVars, or m if there is none; the result is greater than   *)
(* clusterIndex and at most m; a clusterIndex outside [0, m) is a fatal    *)
(* error.                                                                  *)
(***************************************************************************)
C19_ChooseClusterIndex ==
  clusterCall.outcome # "" =>
    LET m == Len(clusterCall.projectableVarSets)
        clusterIndex == clusterCall.clusterIndex
        post == clusterCall.node.preProjectionVars
                  \ clusterCall.node.projectionVars
        \* the indices, counted from 0, of the sets that meet post
        meeting == {t \in 0 .. m - 1 :
                      clusterCall.projectableVarSets[t + 1] \cap post # {}}
        later == {t \in meeting : t > clusterIndex}
    IN IF clusterIndex < 0 \/ clusterIndex >= m
       THEN clusterCall.outcome = "fatal"
       ELSE /\ clusterCall.outcome = "ok"
            /\ clusterCall.result > clusterIndex
            /\ clusterCall.result <= m
            /\ clusterCall.result =
                 IF meeting = {} THEN m
                 ELSE IF clusterCall.clusteringHeuristic
                           \in {"BUCKET_LIST", "BOUQUET_LIST"}
                 THEN clusterIndex + 1
                 ELSE IF later = {} THEN m
                 ELSE CHOOSE t \in later : \A u \in later : t <= u

\* under BUCKET_TREE, from cluster 0 of three, the set of index 1 does not
\* meet postProjectionVars and the set of index 2 does
C19_Witness ==
  /\ clusterCall.outcome = "ok"
  /\ clusterCall.clusteringHeuristic = "BUCKET_TREE"
  /\ clusterCall.clusterIndex = 0
  /\ clusterCall.projectableVarSets = <<{2}, {1}, {2}>>
  /\ clusterCall.node = [preProjectionVars |-> {1, 2}, projectionVars |-> {1}]
  /\ clusterCall.result = 2

=============================================================================
